---- MODULE Spec2Model ----
(***************************************************************************)
(* django-tracking2: the Visitor / Pageview models (tracking/models.py),   *)
(* their derived properties, the two signal connections and the URL        *)
(* configuration (tracking/urls.py).                                       *)
(*                                                                         *)
(* Time is counted in whole seconds.  A nullable field is a set: {} is     *)
(* None and {x} is the value x.                                            *)
(***************************************************************************)
EXTENDS Integers, Sequences, FiniteSets, TLC

VARIABLES
    now,                \* timezone.now()
    visitor_table,      \* the Visitor table: session_key -> {} or {row}
    pageview_table,     \* the Pageview table: sequence of rows, oldest first
    session_cache,      \* the process-wide cache: session_key -> {} or {row}
    obj,                \* the in-memory Visitor object: {} or {object}
    op,                 \* the operation that ran last, with its argument
    ret,                \* its outcome
    saved,              \* whether the last operation called Visitor.save()
    HAS_GEOIP,          \* django.contrib.gis.geoip.HAS_GEOIP
    TRACK_USING_GEOIP,  \* tracking.settings.TRACK_USING_GEOIP
    user_agents,        \* whether the user_agents module got imported
    executed            \* the views that ran: set of [user, view, arg]

vars == << now, visitor_table, pageview_table, session_cache, obj, op, ret,
           saved, HAS_GEOIP, TRACK_USING_GEOIP, user_agents, executed >>

settings_vars == << HAS_GEOIP, TRACK_USING_GEOIP, user_agents >>

----------------------------------------------------------------------------
(* Bounds *)

MaxTime == 2
MaxPageviews == 2

None == {}
Some(x) == {x}
Value(o) == CHOOSE x \in o : TRUE

SessionKeys == {"s1", "s2"}
ExpiryAges == {None, Some(1)}
IpAddresses == {"10.0.0.1"}

UA_CHROME_WINDOWS == "Mozilla/5.0 (Windows NT 10.0) Chrome/70.0"
UA_CHROME_IPHONE == "Mozilla/5.0 (iPhone) CriOS/70.0"
UA_EMPTY == ""
\* The agent strings the requests of a session carry (None: no header).
UserAgentStrings(session_key) ==
    IF session_key = "s1"
    THEN {Some(UA_CHROME_WINDOWS), Some(UA_EMPTY)}
    ELSE {Some(UA_CHROME_IPHONE), None}

----------------------------------------------------------------------------
(* The signal connections made when tracking.models is imported. *)

user_logged_out_receivers_none == {}
user_logged_out_receivers == {"track_ended_session"}

post_save_receivers_none == {}
post_save_receivers == {"post_save_cache"}

----------------------------------------------------------------------------
(* Visitor rows *)

\* A new Visitor: start_time defaults to timezone.now, the nullable fields
\* default to None.
Visitor(session_key, ip_address, user_agent) ==
    [ session_key  |-> session_key,
      user         |-> None,
      ip_address   |-> ip_address,
      user_agent   |-> user_agent,
      start_time   |-> now,
      expiry_age   |-> None,
      expiry_time  |-> None,
      time_on_site |-> None,
      end_time     |-> None ]

\* Pageview(visitor=..., url=..., method=..., view_time=...)
Pageview(visitor, url, method, view_time) ==
    [ visitor |-> visitor, url |-> url, method |-> method, view_time |-> view_time ]

\* handlers.post_save_cache: store the saved instance under its session key.
post_save_cache(cache, instance) ==
    [cache EXCEPT ![instance.session_key] = Some(instance)]

\* Visitor.save(): write the row, then send post_save to the connected
\* receivers.
save(instance) ==
    /\ visitor_table' = [visitor_table EXCEPT ![instance.session_key] = Some(instance)]
    /\ session_cache' = IF "post_save_cache" \in post_save_receivers
                        THEN post_save_cache(session_cache, instance)
                        ELSE session_cache
    /\ saved' = TRUE

\* The in-memory object built from a row: the stored fields, and an instance
\* __dict__ that holds no memo attribute yet.  geoip_calls and city_calls
\* count the GeoIP() constructions and the city() lookups made through this
\* object.
Instance(row) ==
    [ row              |-> row,
      attrs            |-> {},
      _geoip_data      |-> None,
      _platform_string |-> "",
      geoip_calls      |-> 0,
      city_calls       |-> 0 ]

----------------------------------------------------------------------------
(* Outcomes of an operation *)

\* status and val: what the caller gets; logged: whether log.error ran;
\* provider: what the GeoIP library did during the operation.
Return(v) == [status |-> "return", val |-> v, logged |-> FALSE, provider |-> "not called"]
Raise(e) == [status |-> "raise", val |-> e, logged |-> FALSE, provider |-> "not called"]

----------------------------------------------------------------------------
(* Visitor.session_expired, session_ended, last_time *)

session_expired_strict(self, t) ==
    IF self.expiry_time # None
    THEN Value(self.expiry_time) < t
    ELSE FALSE

\* A datetime is always truthy, so "if self.expiry_time" tests for None.
session_expired(self, t) ==
    IF self.expiry_time # None
    THEN Value(self.expiry_time) <= t
    ELSE FALSE

session_ended_wrong_field(self) == self.expiry_time # None

\* bool(self.end_time)
session_ended(self) == self.end_time # None

last_time_falsy(self) ==
    IF self.time_on_site = None \/ self.time_on_site = Some(0)
    THEN Return(self.start_time)
    ELSE Return(self.start_time + Value(self.time_on_site))

\* timedelta(seconds=None) raises TypeError.
last_time(self) ==
    IF self.time_on_site = None
    THEN Raise("TypeError")
    ELSE Return(self.start_time + Value(self.time_on_site))

----------------------------------------------------------------------------
(* Visitor.geoip_data *)

\* What the GeoIP library can answer: GeoIP(cache=...) builds the reader or
\* raises GeoIPException; gip.city(ip) gives a record, None for an address
\* the database does not hold, or raises GeoIPException.
GeoIPOutcomes == {"ok", "GeoIPException"}
CityOutcomes == {"record", "None", "GeoIPException"}

city(ip_address) == [city |-> "Springfield", country_code |-> "US", ip |-> ip_address]

\* What the library did, seen from the caller of GeoIP() and city().
Provider(geoip_outcome, city_outcome) ==
    IF geoip_outcome = "GeoIPException" \/ city_outcome = "GeoIPException"
    THEN "GeoIPException"
    ELSE "ok"

\* The try block: the reader is built and asked for the city; the object as
\* the block leaves it.
geoip_try(self, geoip_outcome, city_outcome) ==
    LET s1 == [self EXCEPT !.geoip_calls = @ + 1]
    IN  IF geoip_outcome = "GeoIPException"
        THEN s1
        ELSE LET s2 == [s1 EXCEPT !.city_calls = @ + 1]
             IN  IF city_outcome = "record"
                 THEN [s2 EXCEPT !._geoip_data = Some(city(self.row.ip_address))]
                 ELSE s2

geoip_data_no_memo(self, has_geoip, track_using_geoip, geoip_outcome, city_outcome) ==
    IF ~has_geoip \/ ~track_using_geoip
    THEN [self |-> self, ret |-> Return(None)]
    ELSE IF self._geoip_data = None
    THEN LET s1 == geoip_try([self EXCEPT !.attrs = @ \union {"_geoip_data"},
                                          !._geoip_data = None],
                             geoip_outcome, city_outcome)
             provider == Provider(geoip_outcome, city_outcome)
         IN  [self |-> s1,
              ret |-> [status |-> "return", val |-> s1._geoip_data,
                       logged |-> provider = "GeoIPException", provider |-> provider]]
    ELSE [self |-> self, ret |-> Return(self._geoip_data)]

geoip_data_uncaught(self, has_geoip, track_using_geoip, geoip_outcome, city_outcome) ==
    IF ~has_geoip \/ ~track_using_geoip
    THEN [self |-> self, ret |-> Return(None)]
    ELSE IF "_geoip_data" \notin self.attrs
    THEN LET s1 == geoip_try([self EXCEPT !.attrs = @ \union {"_geoip_data"},
                                          !._geoip_data = None],
                             geoip_outcome, city_outcome)
             provider == Provider(geoip_outcome, city_outcome)
         IN  [self |-> s1,
              ret |-> IF provider = "GeoIPException"
                      THEN [status |-> "raise", val |-> "GeoIPException",
                            logged |-> FALSE, provider |-> provider]
                      ELSE [status |-> "return", val |-> s1._geoip_data,
                            logged |-> FALSE, provider |-> provider]]
    ELSE [self |-> self, ret |-> Return(self._geoip_data)]

\* The property: the object after the access and the access's outcome.  The
\* attribute is set to None before the try block; except GeoIPException logs
\* the error and falls through to the return.
geoip_data(self, has_geoip, track_using_geoip, geoip_outcome, city_outcome) ==
    IF ~has_geoip \/ ~track_using_geoip
    THEN [self |-> self, ret |-> Return(None)]
    ELSE IF "_geoip_data" \notin self.attrs
    THEN LET s1 == geoip_try([self EXCEPT !.attrs = @ \union {"_geoip_data"},
                                          !._geoip_data = None],
                             geoip_outcome, city_outcome)
             provider == Provider(geoip_outcome, city_outcome)
         IN  [self |-> s1,
              ret |-> [status |-> "return", val |-> s1._geoip_data,
                       logged |-> provider = "GeoIPException", provider |-> provider]]
    ELSE [self |-> self, ret |-> Return(self._geoip_data)]

----------------------------------------------------------------------------
(* Visitor.platform *)

\* user_agents.parse on the agent strings of the model.  The browser version
\* is a tuple that is empty when the parser finds no version, as for the
\* empty agent string; parse(None) raises TypeError.
user_agents_parse(user_agent) ==
    CASE user_agent = Some(UA_CHROME_WINDOWS) ->
            Return([browser_family |-> "Chrome", browser_version |-> <<70, 0>>,
                    os_family |-> "Windows", os_version_string |-> "10",
                    device_family |-> ""])
      [] user_agent = Some(UA_CHROME_IPHONE) ->
            Return([browser_family |-> "Chrome", browser_version |-> <<70, 0>>,
                    os_family |-> "Windows", os_version_string |-> "10",
                    device_family |-> "iPhone"])
      [] user_agent = Some(UA_EMPTY) ->
            Return([browser_family |-> "Other", browser_version |-> << >>,
                    os_family |-> "Other", os_version_string |-> "",
                    device_family |-> "Other"])
      [] user_agent = None -> Raise("TypeError")

\* "%s %d %s %s " % (...), then the device family when it is truthy.
platform_string(p) ==
    LET head == p.browser_family \o " " \o ToString(p.browser_version[1]) \o " "
                \o p.os_family \o " " \o p.os_version_string \o " "
    IN  IF p.device_family # "" THEN head \o p.device_family ELSE head

platform_overwrites_agent(self, user_agents_loaded) ==
    IF ~user_agents_loaded
    THEN [self |-> self, ret |-> Return(self.row.user_agent)]
    ELSE IF "_platform_string" \notin self.attrs
    THEN LET parsed == user_agents_parse(self.row.user_agent)
         IN  IF parsed.status = "raise"
             THEN [self |-> self, ret |-> parsed]
             ELSE IF Len(parsed.val.browser_version) = 0
             THEN [self |-> self, ret |-> Raise("IndexError")]
             ELSE LET s1 == [self EXCEPT !.attrs = @ \union {"_platform_string"},
                                         !._platform_string = platform_string(parsed.val),
                                         !.row.user_agent = Some(platform_string(parsed.val))]
                  IN  [self |-> s1, ret |-> Return(Some(s1._platform_string))]
    ELSE [self |-> self, ret |-> Return(Some(self._platform_string))]

\* The property: the object after the access and the access's outcome.
platform(self, user_agents_loaded) ==
    IF ~user_agents_loaded
    THEN [self |-> self, ret |-> Return(self.row.user_agent)]
    ELSE IF "_platform_string" \notin self.attrs
    THEN LET parsed == user_agents_parse(self.row.user_agent)
         IN  IF parsed.status = "raise"
             THEN [self |-> self, ret |-> parsed]
             ELSE IF Len(parsed.val.browser_version) = 0
             THEN [self |-> self, ret |-> Raise("IndexError")]
             ELSE LET s1 == [self EXCEPT !.attrs = @ \union {"_platform_string"},
                                         !._platform_string = platform_string(parsed.val)]
                  IN  [self |-> s1, ret |-> Return(Some(s1._platform_string))]
    ELSE [self |-> self, ret |-> Return(Some(self._platform_string))]

----------------------------------------------------------------------------
(* tracking/urls.py *)

Digits == {"4", "2"}
WordChars == Digits \union {"a", "_"}

\* The argument part of a request path, as a sequence of characters.
PathArgs == { << >>, <<"4", "2">>, <<"a", "_">>, <<"4", "a">>, <<"a", "-">> }
PathHeads == {"", "dashboard/", "user-visits/", "page-views/", "admin/"}

\* A request path: head, then arg, then "/" when slash is set.
Paths == [head : PathHeads, arg : PathArgs, slash : BOOLEAN]

Users == {"anonymous", "alice", "carol"}

\* Visitor.Meta.permissions
permissions == { [codename |-> "view_visitor", name |-> "Can view visitor"] }

\* User.has_perm, for the users of the model: alice is granted the
\* permissions of Visitor.Meta, carol one of the default model permissions,
\* the anonymous user none.
has_perm(user, perm) ==
    CASE user = "alice" -> perm \in { "tracking." \o q.codename : q \in permissions }
      [] user = "carol" -> perm = "tracking.change_visitor"
      [] OTHER -> FALSE

\* (\d+) and (\w+)
MatchesDigits(arg) == Len(arg) > 0 /\ \A i \in 1..Len(arg) : arg[i] \in Digits
MatchesWord(arg) == Len(arg) > 0 /\ \A i \in 1..Len(arg) : arg[i] \in WordChars

urlpatterns_unguarded ==
    << [regex |-> "^$", view |-> "dashboard", permission |-> None],
       [regex |-> "^dashboard/$", view |-> "stats", permission |-> None],
       [regex |-> "^user-visits/(\\d+)/$", view |-> "UserVisits",
        permission |-> Some("tracking.view_visitor")],
       [regex |-> "^page-views/(\\w+)/$", view |-> "PageViews",
        permission |-> None] >>

\* The patterns in order; permission is the permission_required decorator
\* around the view, None for a bare view.
urlpatterns ==
    << [regex |-> "^$", view |-> "dashboard", permission |-> None],
       [regex |-> "^dashboard/$", view |-> "stats", permission |-> None],
       [regex |-> "^user-visits/(\\d+)/$", view |-> "UserVisits",
        permission |-> Some("tracking.view_visitor")],
       [regex |-> "^page-views/(\\w+)/$", view |-> "PageViews",
        permission |-> Some("tracking.view_visitor")] >>

\* Whether a pattern's regular expression matches the path.
Matches(regex, path) ==
    CASE regex = "^$" -> path.head = "" /\ path.arg = << >> /\ ~path.slash
      [] regex = "^dashboard/$" -> path.head = "dashboard/" /\ path.arg = << >> /\ ~path.slash
      [] regex = "^user-visits/(\\d+)/$" ->
            path.head = "user-visits/" /\ MatchesDigits(path.arg) /\ path.slash
      [] regex = "^page-views/(\\w+)/$" ->
            path.head = "page-views/" /\ MatchesWord(path.arg) /\ path.slash

\* The URL resolver: the first pattern that matches, {} when none does.
resolve(path) ==
    LET hits == { i \in 1..Len(urlpatterns) : Matches(urlpatterns[i].regex, path) }
    IN  IF hits = {} THEN None
        ELSE Some(urlpatterns[CHOOSE i \in hits : \A j \in hits : i <= j])

\* permission_required(perm)(view): the view runs when the user has the
\* permission, otherwise the user is redirected to the login page.
dispatch(user, pattern) ==
    IF pattern.permission = None \/ has_perm(user, Value(pattern.permission))
    THEN "view"
    ELSE "redirect"

----------------------------------------------------------------------------
(* The state machine *)

\* The operation that ran and the session key or user it ran for.
Op(name, key) == [name |-> name, key |-> key]

RequestUsers == {None}

\* tracking.models imported with GeoIP and user_agents installed and enabled;
\* nothing tracked yet.
Init ==
    /\ now = 0
    /\ visitor_table = [k \in SessionKeys |-> None]
    /\ pageview_table = << >>
    /\ session_cache = [k \in SessionKeys |-> None]
    /\ obj = None
    /\ op = Op("init", "")
    /\ ret = Return(None)
    /\ saved = FALSE
    /\ HAS_GEOIP = TRUE
    /\ TRACK_USING_GEOIP = TRUE
    /\ user_agents = TRUE
    /\ executed = {}

\* The same with any availability of the two optional libraries and any
\* setting of TRACK_USING_GEOIP and TRACK_PARSE_AGENT.
InitAnySettings ==
    /\ now = 0
    /\ visitor_table = [k \in SessionKeys |-> None]
    /\ pageview_table = << >>
    /\ session_cache = [k \in SessionKeys |-> None]
    /\ obj = None
    /\ op = Op("init", "")
    /\ ret = Return(None)
    /\ saved = FALSE
    /\ HAS_GEOIP \in BOOLEAN
    /\ TRACK_USING_GEOIP \in BOOLEAN
    /\ user_agents \in BOOLEAN
    /\ executed = {}

\* The clock advances.
Tick ==
    /\ now < MaxTime
    /\ now' = now + 1
    /\ op' = Op("tick", "")
    /\ ret' = Return(None)
    /\ saved' = FALSE
    /\ UNCHANGED << visitor_table, pageview_table, session_cache, obj,
                    settings_vars, executed >>

\* A tracked page request of session key: the Visitor row is created when the
\* session is first seen and its timing fields are updated on every later
\* request; a Pageview row is added.
TrackRequest(key, user, ip_address, user_agent, expiry_age) ==
    LET expiry_time == IF expiry_age = None THEN None ELSE Some(now + Value(expiry_age))
        visitor ==
            IF visitor_table[key] = None
            THEN [Visitor(key, ip_address, user_agent) EXCEPT
                    !.user = user, !.expiry_age = expiry_age, !.expiry_time = expiry_time]
            ELSE LET v == Value(visitor_table[key])
                 IN  [v EXCEPT !.user = IF v.user = None THEN user ELSE v.user,
                               !.expiry_age = expiry_age,
                               !.expiry_time = expiry_time,
                               !.time_on_site = Some(now - v.start_time)]
    IN  /\ Len(pageview_table) < MaxPageviews
        /\ save(visitor)
        /\ pageview_table' = Append(pageview_table, Pageview(key, "/", Some("GET"), now))
        /\ op' = Op("request", key)
        /\ ret' = Return(None)
        /\ UNCHANGED << now, obj, settings_vars, executed >>

\* handlers.track_ended_session: close the open Visitor row of the request's
\* session; nothing happens when there is none.
track_ended_session(key) ==
    IF visitor_table[key] # None /\ Value(visitor_table[key]).end_time = None
    THEN save([Value(visitor_table[key]) EXCEPT !.end_time = Some(now)])
    ELSE /\ saved' = FALSE
         /\ UNCHANGED << visitor_table, session_cache >>

\* user_logged_out is sent for a request of session key.
Logout(key) ==
    /\ IF "track_ended_session" \in user_logged_out_receivers
       THEN track_ended_session(key)
       ELSE /\ saved' = FALSE
            /\ UNCHANGED << visitor_table, session_cache >>
    /\ op' = Op("logout", key)
    /\ ret' = Return(None)
    /\ UNCHANGED << now, pageview_table, obj, settings_vars, executed >>

\* Visitor.objects.get(pk=key): a fresh in-memory object of the stored row.
Load(key) ==
    /\ visitor_table[key] # None
    /\ obj' = Some(Instance(Value(visitor_table[key])))
    /\ op' = Op("load", key)
    /\ ret' = Return(None)
    /\ saved' = FALSE
    /\ UNCHANGED << now, visitor_table, pageview_table, session_cache,
                    settings_vars, executed >>

\* An access to a derived property of the in-memory object that leaves the
\* object as it is.
Access(name, outcome) ==
    /\ op' = Op(name, Value(obj).row.session_key)
    /\ ret' = outcome
    /\ saved' = FALSE
    /\ UNCHANGED << now, visitor_table, pageview_table, session_cache, obj,
                    settings_vars, executed >>

SessionExpired ==
    /\ obj # None
    /\ Access("session_expired", Return(session_expired(Value(obj).row, now)))

SessionEnded ==
    /\ obj # None
    /\ Access("session_ended", Return(session_ended(Value(obj).row)))

LastTime ==
    /\ obj # None
    /\ Access("last_time", last_time(Value(obj).row))

GeoipData ==
    /\ obj # None
    /\ \E geoip_outcome \in GeoIPOutcomes, city_outcome \in CityOutcomes :
          LET r == geoip_data(Value(obj), HAS_GEOIP, TRACK_USING_GEOIP,
                              geoip_outcome, city_outcome)
          IN  /\ obj' = Some(r.self)
              /\ ret' = r.ret
              /\ op' = Op("geoip_data", Value(obj).row.session_key)
    /\ saved' = FALSE
    /\ UNCHANGED << now, visitor_table, pageview_table, session_cache,
                    settings_vars, executed >>

Platform ==
    /\ obj # None
    /\ LET r == platform(Value(obj), user_agents)
       IN  /\ obj' = Some(r.self)
           /\ ret' = r.ret
    /\ op' = Op("platform", Value(obj).row.session_key)
    /\ saved' = FALSE
    /\ UNCHANGED << now, visitor_table, pageview_table, session_cache,
                    settings_vars, executed >>

\* The session lifecycle and the session-status properties.
Next ==
    \/ Tick
    \/ \E key \in SessionKeys, user \in RequestUsers, ip_address \in IpAddresses,
          expiry_age \in ExpiryAges :
          \E user_agent \in UserAgentStrings(key) :
             TrackRequest(key, user, ip_address, user_agent, expiry_age)
    \/ \E key \in SessionKeys : Logout(key)
    \/ \E key \in SessionKeys : Load(key)
    \/ SessionExpired
    \/ SessionEnded
    \/ LastTime

Spec == Init /\ [][Next]_vars

\* The derived properties of the objects of tracked and closed sessions,
\* under every configuration.
NextDerived ==
    \/ \E key \in SessionKeys, user \in RequestUsers, ip_address \in IpAddresses,
          expiry_age \in ExpiryAges :
          \E user_agent \in UserAgentStrings(key) :
             TrackRequest(key, user, ip_address, user_agent, expiry_age)
    \/ \E key \in SessionKeys : Logout(key)
    \/ \E key \in SessionKeys : Load(key)
    \/ SessionExpired
    \/ SessionEnded
    \/ LastTime
    \/ GeoipData
    \/ Platform

SpecDerived == InitAnySettings /\ [][NextDerived]_vars

\* An HTTP request of user for path, through the URL configuration.
HttpRequest(user, path) ==
    /\ LET match == resolve(path)
       IN  IF match = None
           THEN ret' = Return("404") /\ UNCHANGED executed
           ELSE IF dispatch(user, Value(match)) = "view"
           THEN /\ ret' = Return("200")
                /\ executed' = executed \union {[user |-> user, view |-> Value(match).view]}
           ELSE ret' = Return("302") /\ UNCHANGED executed
    /\ op' = Op("http", user)
    /\ saved' = FALSE
    /\ UNCHANGED << now, visitor_table, pageview_table, session_cache, obj,
                    settings_vars >>

NextUrls == \E user \in Users, path \in Paths : HttpRequest(user, path)

SpecUrls == Init /\ [][NextUrls]_vars

----------------------------------------------------------------------------
(* Properties *)

Rows == { Value(visitor_table[k]) : k \in { k \in SessionKeys : visitor_table[k] # None } }
IsOpen(key) == visitor_table[key] # None /\ Value(visitor_table[key]).end_time = None
ExpiryPassed(row) == row.expiry_time # None /\ \E t \in row.expiry_time : t <= now
GeoipEnabled == HAS_GEOIP /\ TRACK_USING_GEOIP
DerivedProperties == {"session_expired", "session_ended", "last_time", "geoip_data", "platform"}

\* C1: a logout event for a session whose Visitor row has end_time unset sets
\* that row's end_time to the time of the event and saves the row, leaving
\* every other row alone; a logout event for a session with no open row
\* (none at all, or one already closed) saves nothing and changes no row, so
\* an end_time once set is not overwritten by a later logout.
C1_LogoutClosesOpenRowOnce ==
    [][ op'.name = "logout" =>
          IF IsOpen(op'.key)
          THEN /\ visitor_table' =
                     [visitor_table EXCEPT ![op'.key] =
                         Some([Value(visitor_table[op'.key]) EXCEPT !.end_time = Some(now)])]
               /\ saved'
          ELSE /\ visitor_table' = visitor_table
               /\ ~saved' ]_vars

\* A second logout, later than the one that closed the row: the row keeps the
\* end_time of the first.
C1_Witness ==
    /\ op.name = "logout"
    /\ ~saved
    /\ visitor_table[op.key] # None
    /\ \E t \in Value(visitor_table[op.key]).end_time : t < now

\* C2: session_expired() returns true iff expiry_time is set and at or before
\* the evaluation time (expiry_time = now counts as expired), and false when
\* expiry_time is unset or in the future.
C2_SessionExpiredIffExpiryPassed ==
    op.name = "session_expired" =>
        /\ ret.status = "return"
        /\ ret.val = ExpiryPassed(Value(obj).row)

\* The boundary: evaluated at exactly expiry_time, the answer is true.
C2_Witness ==
    /\ op.name = "session_expired"
    /\ Value(obj).row.expiry_time = Some(now)
    /\ ret.val = TRUE

\* C5: last_time is start_time + time_on_site seconds when time_on_site is
\* set (0 included), and fails with an error when time_on_site is unset.
C5_LastTimeIsStartPlusTimeOnSite ==
    op.name = "last_time" =>
        LET row == Value(obj).row
        IN  IF row.time_on_site = None
            THEN ret.status = "raise"
            ELSE /\ ret.status = "return"
                 /\ ret.val = row.start_time + Value(row.time_on_site)

\* time_on_site = 0 on a session that started after time 0.
C5_Witness ==
    /\ op.name = "last_time"
    /\ Value(obj).row.time_on_site = Some(0)
    /\ Value(obj).row.start_time > 0
    /\ ret.status = "return"
    /\ ret.val = Value(obj).row.start_time

\* C7 as stated: of "active" (neither predicate true), "expired"
\* (session_expired() true) and "ended" (session_ended() true), exactly one
\* holds for every Visitor row in every reachable state, so the two
\* predicates are never true together.
C7_ExactlyOneStatus ==
    \A row \in Rows :
        Cardinality({ status \in {"active", "expired", "ended"} :
            CASE status = "active" -> ~session_expired(row, now) /\ ~session_ended(row)
              [] status = "expired" -> session_expired(row, now)
              [] status = "ended" -> session_ended(row) }) = 1

\* C7 amended: for every Visitor row in every reachable state,
\* session_ended() is true iff end_time is set and session_expired() is true
\* iff expiry_time is set and at or before the current time, each whatever
\* the other says; so "active" holds exactly when neither field condition
\* does, and a row that is both closed by a logout and past its expiry_time
\* is ended and expired at once.
C7_StatusesAreIndependent ==
    \A row \in Rows :
        /\ session_ended(row) = (row.end_time # None)
        /\ session_expired(row, now) = ExpiryPassed(row)
        /\ (~session_expired(row, now) /\ ~session_ended(row))
              = (row.end_time = None /\ ~ExpiryPassed(row))

\* A row closed by a logout whose expiry_time has then passed.
C7_Witness ==
    \E row \in Rows :
        /\ session_expired(row, now)
        /\ session_ended(row)
        /\ \E t \in row.end_time, e \in row.expiry_time : t < e

\* C10: after every save of a Visitor row, the save of the logout hook
\* included, the cache entry of the row's session key is the row as saved:
\* in every reachable state the cache holds, for each stored row, that row.
C10_CacheHoldsSavedRow ==
    \A key \in SessionKeys :
        visitor_table[key] # None => session_cache[key] = visitor_table[key]

\* The logout hook has just saved a row that a request had created and the
\* cache entry is the closed row.
C10_Witness ==
    /\ op.name = "logout"
    /\ saved
    /\ Value(session_cache[op.key]).end_time = Some(now)
    /\ now > Value(session_cache[op.key]).start_time

\* C3: over the accesses to geoip_data of one in-memory object the GeoIP
\* library is invoked at most once.  With GeoIP unavailable or disabled an
\* access returns None and invokes nothing; with GeoIP enabled the first
\* access builds the reader once and memoizes what it returns, and every
\* later access returns that memo, invokes nothing and leaves the object as
\* it is.
C3_GeoipLookupAtMostOnce ==
    [][ op'.name = "geoip_data" =>
          LET before == Value(obj)
              after == Value(obj')
          IN  IF ~GeoipEnabled
              THEN /\ after = before
                   /\ before.geoip_calls = 0
                   /\ ret' = Return(None)
              ELSE IF before.geoip_calls = 0
              THEN /\ after.geoip_calls = 1
                   /\ after.city_calls <= 1
                   /\ ret'.provider # "not called"
                   /\ ret'.status = "return"
                   /\ ret'.val = after._geoip_data
              ELSE /\ after = before
                   /\ ret' = Return(before._geoip_data) ]_vars

\* A later access to an object whose first access failed while the reader
\* was built: None comes back and the library is not called again.
C3_Witness ==
    /\ GeoipEnabled
    /\ op.name = "geoip_data"
    /\ ret = Return(None)
    /\ Value(obj).geoip_calls = 1
    /\ Value(obj).city_calls = 0

\* C4: when the lookup of geoip_data raises GeoIPException, from GeoIP() or
\* from city(), geoip_data logs the error and returns None; the error does
\* not reach the caller.
C4_GeoipErrorNotPropagated ==
    (op.name = "geoip_data" /\ ret.provider = "GeoIPException") =>
        /\ ret.status = "return"
        /\ ret.val = None
        /\ ret.logged

\* city() raised on a reader that was built.
C4_Witness ==
    /\ op.name = "geoip_data"
    /\ ret.provider = "GeoIPException"
    /\ Value(obj).city_calls = 1
    /\ ret.status = "return"
    /\ ret.logged

\* C6: platform returns the stored user_agent as it is when user_agents is
\* not loaded; otherwise, for an agent string that user_agents parses, it
\* returns "<browser family> <major version> <os family> <os version> ",
\* followed by the device family when there is one.
C6_PlatformReturnsFormattedString ==
    op.name = "platform" =>
        LET user_agent == Value(obj).row.user_agent
        IN  IF ~user_agents
            THEN ret = Return(user_agent)
            ELSE user_agent # None =>
                    /\ ret.status = "return"
                    /\ user_agent = Some(UA_CHROME_WINDOWS)
                          => ret.val = Some("Chrome 70 Windows 10 ")
                    /\ user_agent = Some(UA_CHROME_IPHONE)
                          => ret.val = Some("Chrome 70 Windows 10 iPhone")

\* C9: an access to session_expired(), session_ended(), last_time,
\* geoip_data or platform changes no Visitor row, no Pageview row and no
\* stored field of the object it is made on, and saves nothing.
C9_DerivedPropertiesReadOnly ==
    [][ op'.name \in DerivedProperties =>
          /\ visitor_table' = visitor_table
          /\ pageview_table' = pageview_table
          /\ ~saved'
          /\ Value(obj').row = Value(obj).row ]_vars

\* Both memo attributes are set on an object whose stored fields are those of
\* its row.
C9_Witness ==
    /\ op.name \in DerivedProperties
    /\ Value(obj).attrs = {"_geoip_data", "_platform_string"}
    /\ Value(obj)._geoip_data # None
    /\ Value(obj).row = Value(visitor_table[op.key])
    /\ Len(pageview_table) > 0

\* C8: UserVisits and PageViews run only for a user who has the
\* tracking.view_visitor permission.
C8_ViewsNeedViewVisitorPermission ==
    \A e \in executed :
        e.view \in {"UserVisits", "PageViews"} => has_perm(e.user, "tracking.view_visitor")

\* Both views have run for alice and the last request, of another user for
\* one of the two, was redirected.
C8_Witness ==
    /\ [user |-> "alice", view |-> "UserVisits"] \in executed
    /\ [user |-> "alice", view |-> "PageViews"] \in executed
    /\ op.name = "http"
    /\ op.key # "alice"
    /\ ret = Return("302")

====
